---- MODULE Spec2Model ----
(***************************************************************************)
(* DACVRegistry (contracts/DACVRegistry.sol): issuer directory, credential *)
(* store with its two indices, pause switch, owner gate and event log.     *)
(* The host serialises calls: each call is one atomic step, a reverting    *)
(* call commits nothing.  For each function f, fRevert(...) is the revert  *)
(* reason the call ends with in the current state (NoRevert if it returns).*)
(* Of Ownable only the owner gate is modelled: ownership stays with the    *)
(* deployer.                                                               *)
(***************************************************************************)
EXTENDS Integers, Sequences, FiniteSets, TLC

\* ---------------------------------------------------------------- bounds
\* block.timestamp runs over 1..MaxTime; the event log holds at most
\* MaxEvents entries (the constructor's included); the strings of the ID
\* derivation check have at most MaxStrLen bytes.
MaxTime == 2
MaxEvents == 5
MaxStrLen == 2

\* ------------------------------------------------------------ input sets
\* address(0) and the accounts of the test suite: the deployer (owner), a
\* university and a student.
ZeroAddress == 0
Deployer == 1
University == 2
Student == 3
Address == {ZeroAddress, Deployer, University, Student}

\* msg.sender is never address(0)
Senders == Address \ {ZeroAddress}
\* the _issuer arguments of addIssuer / removeIssuer
IssuerArgs == {ZeroAddress, Deployer, University}
\* the _student arguments of issueCredential
StudentArgs == {ZeroAddress, Student}

\* strings are byte sequences; "" and "a"
Strings == {<<>>, <<97>>}

\* the strings "", "a", "aa", ...: long enough for two adjacent packed strings
\* to shift a byte from one to the other
PackedStrings == {[i \in 1..n |-> 97] : n \in 0..MaxStrLen}

\* _expiryDate arguments: never, or the first block's timestamp
NoExpiry == 0
ExpiryDates == {NoExpiry, 1}

\* ------------------------------------------------------------- encodings
\* abi.encodePacked of (address, address, string, string, uint256): the
\* fixed-width fields are one cell each, the strings are laid end to end
\* with no length prefix.
encodePacked(sender, _student, _ipfsHash, _credentialType, timestamp) ==
    <<sender, _student>> \o _ipfsHash \o _credentialType \o <<timestamp>>

\* keccak256, collision free on the byte string it is applied to.
keccak256(bytes) == <<bytes>>

Bytes32Zero == <<>>

\* an identifier no issuance can derive
UnknownId == keccak256(<<>>)

NoRevert == "ok"

\* --------------------------------------------------------------- state
VARIABLES
    owner,               \* Ownable._owner
    paused,              \* Pausable._paused
    credentials,         \* mapping(bytes32 => Credential), written keys only
    issuers,             \* mapping(address => Issuer)
    authorizedIssuers,   \* mapping(address => bool)
    studentCredentials,  \* mapping(address => bytes32[])
    issuerCredentials,   \* mapping(address => bytes32[])
    events,              \* the event log, oldest first
    now                  \* block.timestamp

registry == <<owner, paused, credentials, issuers, authorizedIssuers,
              studentCredentials, issuerCredentials, events>>
vars == <<owner, paused, credentials, issuers, authorizedIssuers,
          studentCredentials, issuerCredentials, events, now>>

DefaultCredential ==
    [credentialHash |-> Bytes32Zero, ipfsHash |-> <<>>, issuer |-> ZeroAddress,
     student |-> ZeroAddress, credentialType |-> <<>>, issueDate |-> 0,
     expiryDate |-> 0, isRevoked |-> FALSE, exists |-> FALSE]

DefaultIssuer ==
    [name |-> <<>>, country |-> <<>>, isActive |-> FALSE,
     registrationDate |-> 0, credentialsIssued |-> 0]

\* table[_credentialId]: an unwritten slot reads as all zero
CredentialIn(table, _credentialId) ==
    IF _credentialId \in DOMAIN table
    THEN table[_credentialId]
    ELSE DefaultCredential

Credential(_credentialId) == CredentialIn(credentials, _credentialId)

\* identifiers used as arguments of revokeCredential / verifyCredential
CredentialIds == DOMAIN credentials \cup {UnknownId}

Init ==
    /\ owner = Deployer
    /\ paused = FALSE
    /\ credentials = <<>>
    /\ issuers = [a \in Address |-> DefaultIssuer]
    /\ authorizedIssuers = [a \in Address |-> FALSE]
    /\ studentCredentials = [a \in Address |-> <<>>]
    /\ issuerCredentials = [a \in Address |-> <<>>]
    /\ events = <<[kind |-> "OwnershipTransferred", previousOwner |-> ZeroAddress,
                   newOwner |-> Deployer]>>
    /\ now = 1

\* a reverting call: nothing is committed
Reverted == UNCHANGED vars

Emit(ev) == events' = Append(events, ev)

\* ---------------------------------------------------------- faulty variants
\* Each operator named f_Slip below is f with one plausible slip; the claims
\* are checked to tell f from it.

\* --------------------------------------------------------------- modifiers
onlyOwner(sender) ==
    IF owner # sender THEN "OwnableUnauthorizedAccount" ELSE NoRevert

\* slip: the owner passes the issuer gate
onlyAuthorizedIssuer_OwnerBypass(sender) ==
    IF sender = owner THEN NoRevert
    ELSE IF ~authorizedIssuers[sender] THEN "Not an authorized issuer"
    ELSE IF ~issuers[sender].isActive THEN "Issuer is not active"
    ELSE NoRevert

onlyAuthorizedIssuer(sender) ==
    IF ~authorizedIssuers[sender] THEN "Not an authorized issuer"
    ELSE IF ~issuers[sender].isActive THEN "Issuer is not active"
    ELSE NoRevert

credentialExists(_credentialId) ==
    IF ~Credential(_credentialId).exists THEN "Credential does not exist"
    ELSE NoRevert

whenNotPaused == IF paused THEN "EnforcedPause" ELSE NoRevert

whenPaused == IF ~paused THEN "ExpectedPause" ELSE NoRevert

\* the first check of a list that fails
RECURSIVE FirstRevert(_)
FirstRevert(checks) ==
    IF checks = <<>> THEN NoRevert
    ELSE IF Head(checks) # NoRevert THEN Head(checks)
    ELSE FirstRevert(Tail(checks))

\* --------------------------------------------------------------- addIssuer
\* slip: the "Name cannot be empty" check is missing
addIssuerRevert_NoNameCheck(sender, _issuer, _name, _country) ==
    FirstRevert(<<
        onlyOwner(sender),
        IF _issuer = ZeroAddress THEN "Invalid issuer address" ELSE NoRevert,
        IF authorizedIssuers[_issuer] THEN "Issuer already exists" ELSE NoRevert >>)

addIssuerRevert(sender, _issuer, _name, _country) ==
    FirstRevert(<<
        onlyOwner(sender),
        IF _issuer = ZeroAddress THEN "Invalid issuer address" ELSE NoRevert,
        IF ~(Len(_name) > 0) THEN "Name cannot be empty" ELSE NoRevert,
        IF authorizedIssuers[_issuer] THEN "Issuer already exists" ELSE NoRevert >>)

\* slip: the new issuer record is stored with isActive false
addIssuer_Inactive(sender, _issuer, _name, _country) ==
    LET err == addIssuerRevert(sender, _issuer, _name, _country) IN
    IF err # NoRevert THEN Reverted
    ELSE /\ Len(events) < MaxEvents
         /\ authorizedIssuers' = [authorizedIssuers EXCEPT ![_issuer] = TRUE]
         /\ issuers' = [issuers EXCEPT ![_issuer] =
                [name |-> _name, country |-> _country, isActive |-> FALSE,
                 registrationDate |-> now, credentialsIssued |-> 0]]
         /\ Emit([kind |-> "IssuerAdded", issuer |-> _issuer, name |-> _name,
                  country |-> _country])
         /\ UNCHANGED <<owner, paused, credentials, studentCredentials,
                        issuerCredentials, now>>

addIssuer(sender, _issuer, _name, _country) ==
    LET err == addIssuerRevert(sender, _issuer, _name, _country) IN
    IF err # NoRevert THEN Reverted
    ELSE /\ Len(events) < MaxEvents
         /\ authorizedIssuers' = [authorizedIssuers EXCEPT ![_issuer] = TRUE]
         /\ issuers' = [issuers EXCEPT ![_issuer] =
                [name |-> _name, country |-> _country, isActive |-> TRUE,
                 registrationDate |-> now, credentialsIssued |-> 0]]
         /\ Emit([kind |-> "IssuerAdded", issuer |-> _issuer, name |-> _name,
                  country |-> _country])
         /\ UNCHANGED <<owner, paused, credentials, studentCredentials,
                        issuerCredentials, now>>

\* ------------------------------------------------------------ removeIssuer
\* slip: the "Issuer does not exist" check is missing
removeIssuerRevert_NoExistsCheck(sender, _issuer) ==
    FirstRevert(<< onlyOwner(sender) >>)

\* slip: the check tests the stored record, not the authorization flag
removeIssuerRevert_ChecksRecord(sender, _issuer) ==
    FirstRevert(<<
        onlyOwner(sender),
        IF ~(issuers[_issuer].registrationDate # 0) THEN "Issuer does not exist"
        ELSE NoRevert >>)

removeIssuerRevert(sender, _issuer) ==
    FirstRevert(<<
        onlyOwner(sender),
        IF ~authorizedIssuers[_issuer] THEN "Issuer does not exist" ELSE NoRevert >>)

\* slip: only the active flag is cleared, the authorization flag is kept
removeIssuer_KeepsAuthorization(sender, _issuer) ==
    LET err == removeIssuerRevert(sender, _issuer) IN
    IF err # NoRevert THEN Reverted
    ELSE /\ Len(events) < MaxEvents
         /\ issuers' = [issuers EXCEPT ![_issuer].isActive = FALSE]
         /\ Emit([kind |-> "IssuerRemoved", issuer |-> _issuer])
         /\ UNCHANGED <<owner, paused, credentials, authorizedIssuers,
                        studentCredentials, issuerCredentials, now>>

\* slip: hard delete, the stored issuer record is cleared (delete issuers[_issuer])
removeIssuer_DeletesRecord(sender, _issuer) ==
    LET err == removeIssuerRevert(sender, _issuer) IN
    IF err # NoRevert THEN Reverted
    ELSE /\ Len(events) < MaxEvents
         /\ authorizedIssuers' = [authorizedIssuers EXCEPT ![_issuer] = FALSE]
         /\ issuers' = [issuers EXCEPT ![_issuer] = DefaultIssuer]
         /\ Emit([kind |-> "IssuerRemoved", issuer |-> _issuer])
         /\ UNCHANGED <<owner, paused, credentials, studentCredentials,
                        issuerCredentials, now>>

\* slip: the removed issuer's index is cleared (delete issuerCredentials[_issuer])
removeIssuer_ClearsIndex(sender, _issuer) ==
    LET err == removeIssuerRevert(sender, _issuer) IN
    IF err # NoRevert THEN Reverted
    ELSE /\ Len(events) < MaxEvents
         /\ authorizedIssuers' = [authorizedIssuers EXCEPT ![_issuer] = FALSE]
         /\ issuers' = [issuers EXCEPT ![_issuer].isActive = FALSE]
         /\ issuerCredentials' = [issuerCredentials EXCEPT ![_issuer] = <<>>]
         /\ Emit([kind |-> "IssuerRemoved", issuer |-> _issuer])
         /\ UNCHANGED <<owner, paused, credentials, studentCredentials, now>>

\* slip: only the authorization flag is cleared, isActive stays set
removeIssuer_KeepsActive(sender, _issuer) ==
    LET err == removeIssuerRevert(sender, _issuer) IN
    IF err # NoRevert THEN Reverted
    ELSE /\ Len(events) < MaxEvents
         /\ authorizedIssuers' = [authorizedIssuers EXCEPT ![_issuer] = FALSE]
         /\ Emit([kind |-> "IssuerRemoved", issuer |-> _issuer])
         /\ UNCHANGED <<owner, paused, credentials, issuers, studentCredentials,
                        issuerCredentials, now>>

removeIssuer(sender, _issuer) ==
    LET err == removeIssuerRevert(sender, _issuer) IN
    IF err # NoRevert THEN Reverted
    ELSE /\ Len(events) < MaxEvents
         /\ authorizedIssuers' = [authorizedIssuers EXCEPT ![_issuer] = FALSE]
         /\ issuers' = [issuers EXCEPT ![_issuer].isActive = FALSE]
         /\ Emit([kind |-> "IssuerRemoved", issuer |-> _issuer])
         /\ UNCHANGED <<owner, paused, credentials, studentCredentials,
                        issuerCredentials, now>>

\* --------------------------------------------------------- issueCredential
\* slip: block.timestamp left out of the hashed tuple
credentialIdOf_NoTimestamp(sender, _student, _ipfsHash, _credentialType) ==
    keccak256(encodePacked(sender, _student, _ipfsHash, _credentialType, 0))

credentialIdOf(sender, _student, _ipfsHash, _credentialType) ==
    keccak256(encodePacked(sender, _student, _ipfsHash, _credentialType, now))

\* slip: no "Credential already exists" check, a re-issue overwrites
issueCredentialRevert_NoDuplicateCheck(sender, _student, _ipfsHash, _credentialType, _expiryDate) ==
    FirstRevert(<<
        onlyAuthorizedIssuer(sender),
        whenNotPaused,
        IF _student = ZeroAddress THEN "Invalid student address" ELSE NoRevert,
        IF ~(Len(_ipfsHash) > 0) THEN "IPFS hash cannot be empty" ELSE NoRevert,
        IF ~(Len(_credentialType) > 0) THEN "Credential type cannot be empty"
        ELSE NoRevert >>)

\* slip: whenNotPaused left off issueCredential
issueCredentialRevert_NoPauseGate(sender, _student, _ipfsHash, _credentialType, _expiryDate) ==
    FirstRevert(<<
        onlyAuthorizedIssuer(sender),
        IF _student = ZeroAddress THEN "Invalid student address" ELSE NoRevert,
        IF ~(Len(_ipfsHash) > 0) THEN "IPFS hash cannot be empty" ELSE NoRevert,
        IF ~(Len(_credentialType) > 0) THEN "Credential type cannot be empty"
        ELSE NoRevert,
        IF Credential(credentialIdOf(sender, _student, _ipfsHash,
                                     _credentialType)).exists
        THEN "Credential already exists" ELSE NoRevert >>)

\* slip: the duplicate check runs first, before the issuer and pause gates
issueCredentialRevert_DuplicateCheckFirst(sender, _student, _ipfsHash, _credentialType, _expiryDate) ==
    FirstRevert(<<
        IF Credential(credentialIdOf(sender, _student, _ipfsHash,
                                     _credentialType)).exists
        THEN "Credential already exists" ELSE NoRevert,
        onlyAuthorizedIssuer(sender),
        whenNotPaused,
        IF _student = ZeroAddress THEN "Invalid student address" ELSE NoRevert,
        IF ~(Len(_ipfsHash) > 0) THEN "IPFS hash cannot be empty" ELSE NoRevert,
        IF ~(Len(_credentialType) > 0) THEN "Credential type cannot be empty"
        ELSE NoRevert >>)

\* slip: an added require refuses an expiry that is not in the future
issueCredentialRevert_RejectsPastExpiry(sender, _student, _ipfsHash, _credentialType, _expiryDate) ==
    FirstRevert(<<
        onlyAuthorizedIssuer(sender),
        whenNotPaused,
        IF _student = ZeroAddress THEN "Invalid student address" ELSE NoRevert,
        IF ~(Len(_ipfsHash) > 0) THEN "IPFS hash cannot be empty" ELSE NoRevert,
        IF ~(Len(_credentialType) > 0) THEN "Credential type cannot be empty"
        ELSE NoRevert,
        IF ~(_expiryDate = NoExpiry \/ _expiryDate > now)
        THEN "Expiry must be in the future" ELSE NoRevert,
        IF Credential(credentialIdOf(sender, _student, _ipfsHash,
                                     _credentialType)).exists
        THEN "Credential already exists" ELSE NoRevert >>)

\* slip: the "Credential type cannot be empty" check is missing
issueCredentialRevert_NoTypeCheck(sender, _student, _ipfsHash, _credentialType, _expiryDate) ==
    FirstRevert(<<
        onlyAuthorizedIssuer(sender),
        whenNotPaused,
        IF _student = ZeroAddress THEN "Invalid student address" ELSE NoRevert,
        IF ~(Len(_ipfsHash) > 0) THEN "IPFS hash cannot be empty" ELSE NoRevert,
        IF Credential(credentialIdOf(sender, _student, _ipfsHash,
                                     _credentialType)).exists
        THEN "Credential already exists" ELSE NoRevert >>)

\* slip: the modifiers are swapped, whenNotPaused runs before onlyAuthorizedIssuer
issueCredentialRevert_PauseFirst(sender, _student, _ipfsHash, _credentialType, _expiryDate) ==
    FirstRevert(<<
        whenNotPaused,
        onlyAuthorizedIssuer(sender),
        IF _student = ZeroAddress THEN "Invalid student address" ELSE NoRevert,
        IF ~(Len(_ipfsHash) > 0) THEN "IPFS hash cannot be empty" ELSE NoRevert,
        IF ~(Len(_credentialType) > 0) THEN "Credential type cannot be empty"
        ELSE NoRevert,
        IF Credential(credentialIdOf(sender, _student, _ipfsHash,
                                     _credentialType)).exists
        THEN "Credential already exists" ELSE NoRevert >>)

issueCredentialRevert(sender, _student, _ipfsHash, _credentialType, _expiryDate) ==
    FirstRevert(<<
        onlyAuthorizedIssuer(sender),
        whenNotPaused,
        IF _student = ZeroAddress THEN "Invalid student address" ELSE NoRevert,
        IF ~(Len(_ipfsHash) > 0) THEN "IPFS hash cannot be empty" ELSE NoRevert,
        IF ~(Len(_credentialType) > 0) THEN "Credential type cannot be empty"
        ELSE NoRevert,
        IF Credential(credentialIdOf(sender, _student, _ipfsHash,
                                     _credentialType)).exists
        THEN "Credential already exists" ELSE NoRevert >>)

\* slip: the subject's index entry is filed under msg.sender
issueCredential_IndexesBySender(sender, _student, _ipfsHash, _credentialType, _expiryDate) ==
    LET err == issueCredentialRevert(sender, _student, _ipfsHash,
                                     _credentialType, _expiryDate)
        credentialId == credentialIdOf(sender, _student, _ipfsHash, _credentialType)
    IN
    IF err # NoRevert THEN Reverted
    ELSE /\ Len(events) < MaxEvents
         /\ credentials' = [id \in DOMAIN credentials \cup {credentialId} |->
                IF id = credentialId
                THEN [credentialHash |-> keccak256(_ipfsHash),
                      ipfsHash |-> _ipfsHash,
                      issuer |-> sender,
                      student |-> _student,
                      credentialType |-> _credentialType,
                      issueDate |-> now,
                      expiryDate |-> _expiryDate,
                      isRevoked |-> FALSE,
                      exists |-> TRUE]
                ELSE credentials[id]]
         /\ studentCredentials' = [studentCredentials EXCEPT ![sender] =
                Append(@, credentialId)]
         /\ issuerCredentials' = [issuerCredentials EXCEPT ![sender] =
                Append(@, credentialId)]
         /\ issuers' = [issuers EXCEPT ![sender].credentialsIssued = @ + 1]
         /\ Emit([kind |-> "CredentialIssued", credentialId |-> credentialId,
                  issuer |-> sender, student |-> _student,
                  credentialType |-> _credentialType, ipfsHash |-> _ipfsHash])
         /\ UNCHANGED <<owner, paused, authorizedIssuers, now>>

\* slip: the new ID is put at the front of the subject's index
issueCredential_PrependsToIndex(sender, _student, _ipfsHash, _credentialType, _expiryDate) ==
    LET err == issueCredentialRevert(sender, _student, _ipfsHash,
                                     _credentialType, _expiryDate)
        credentialId == credentialIdOf(sender, _student, _ipfsHash, _credentialType)
    IN
    IF err # NoRevert THEN Reverted
    ELSE /\ Len(events) < MaxEvents
         /\ credentials' = [id \in DOMAIN credentials \cup {credentialId} |->
                IF id = credentialId
                THEN [credentialHash |-> keccak256(_ipfsHash),
                      ipfsHash |-> _ipfsHash,
                      issuer |-> sender,
                      student |-> _student,
                      credentialType |-> _credentialType,
                      issueDate |-> now,
                      expiryDate |-> _expiryDate,
                      isRevoked |-> FALSE,
                      exists |-> TRUE]
                ELSE credentials[id]]
         /\ studentCredentials' = [studentCredentials EXCEPT ![_student] =
                <<credentialId>> \o @]
         /\ issuerCredentials' = [issuerCredentials EXCEPT ![sender] =
                Append(@, credentialId)]
         /\ issuers' = [issuers EXCEPT ![sender].credentialsIssued = @ + 1]
         /\ Emit([kind |-> "CredentialIssued", credentialId |-> credentialId,
                  issuer |-> sender, student |-> _student,
                  credentialType |-> _credentialType, ipfsHash |-> _ipfsHash])
         /\ UNCHANGED <<owner, paused, authorizedIssuers, now>>

\* slip: the push to the issuer's index is missing
issueCredential_SkipsIssuerIndex(sender, _student, _ipfsHash, _credentialType, _expiryDate) ==
    LET err == issueCredentialRevert(sender, _student, _ipfsHash,
                                     _credentialType, _expiryDate)
        credentialId == credentialIdOf(sender, _student, _ipfsHash, _credentialType)
    IN
    IF err # NoRevert THEN Reverted
    ELSE /\ Len(events) < MaxEvents
         /\ credentials' = [id \in DOMAIN credentials \cup {credentialId} |->
                IF id = credentialId
                THEN [credentialHash |-> keccak256(_ipfsHash),
                      ipfsHash |-> _ipfsHash,
                      issuer |-> sender,
                      student |-> _student,
                      credentialType |-> _credentialType,
                      issueDate |-> now,
                      expiryDate |-> _expiryDate,
                      isRevoked |-> FALSE,
                      exists |-> TRUE]
                ELSE credentials[id]]
         /\ studentCredentials' = [studentCredentials EXCEPT ![_student] =
                Append(@, credentialId)]
         /\ issuers' = [issuers EXCEPT ![sender].credentialsIssued = @ + 1]
         /\ Emit([kind |-> "CredentialIssued", credentialId |-> credentialId,
                  issuer |-> sender, student |-> _student,
                  credentialType |-> _credentialType, ipfsHash |-> _ipfsHash])
         /\ UNCHANGED <<owner, paused, authorizedIssuers, issuerCredentials, now>>

issueCredential(sender, _student, _ipfsHash, _credentialType, _expiryDate) ==
    LET err == issueCredentialRevert(sender, _student, _ipfsHash,
                                     _credentialType, _expiryDate)
        credentialId == credentialIdOf(sender, _student, _ipfsHash, _credentialType)
    IN
    IF err # NoRevert THEN Reverted
    ELSE /\ Len(events) < MaxEvents
         /\ credentials' = [id \in DOMAIN credentials \cup {credentialId} |->
                IF id = credentialId
                THEN [credentialHash |-> keccak256(_ipfsHash),
                      ipfsHash |-> _ipfsHash,
                      issuer |-> sender,
                      student |-> _student,
                      credentialType |-> _credentialType,
                      issueDate |-> now,
                      expiryDate |-> _expiryDate,
                      isRevoked |-> FALSE,
                      exists |-> TRUE]
                ELSE credentials[id]]
         /\ studentCredentials' = [studentCredentials EXCEPT ![_student] =
                Append(@, credentialId)]
         /\ issuerCredentials' = [issuerCredentials EXCEPT ![sender] =
                Append(@, credentialId)]
         /\ issuers' = [issuers EXCEPT ![sender].credentialsIssued = @ + 1]
         /\ Emit([kind |-> "CredentialIssued", credentialId |-> credentialId,
                  issuer |-> sender, student |-> _student,
                  credentialType |-> _credentialType, ipfsHash |-> _ipfsHash])
         /\ UNCHANGED <<owner, paused, authorizedIssuers, now>>

\* -------------------------------------------------------- revokeCredential
\* slip: the "Only issuer or owner can revoke" check is missing
revokeCredentialRevert_AnyCaller(sender, _credentialId) ==
    FirstRevert(<<
        credentialExists(_credentialId),
        whenNotPaused,
        IF Credential(_credentialId).isRevoked THEN "Already revoked" ELSE NoRevert >>)

\* slip: the recorded issuer may revoke only while it is still authorized
revokeCredentialRevert_IssuerMustBeAuthorized(sender, _credentialId) ==
    FirstRevert(<<
        credentialExists(_credentialId),
        whenNotPaused,
        IF ~( \/ ( /\ Credential(_credentialId).issuer = sender
                  /\ authorizedIssuers[sender] )
              \/ sender = owner )
        THEN "Only issuer or owner can revoke" ELSE NoRevert,
        IF Credential(_credentialId).isRevoked THEN "Already revoked" ELSE NoRevert >>)

\* slip: the "Already revoked" check is missing
revokeCredentialRevert_NoRevokedCheck(sender, _credentialId) ==
    FirstRevert(<<
        credentialExists(_credentialId),
        whenNotPaused,
        IF ~(Credential(_credentialId).issuer = sender \/ sender = owner)
        THEN "Only issuer or owner can revoke" ELSE NoRevert >>)

\* slip: the modifiers are swapped, whenNotPaused runs before credentialExists
revokeCredentialRevert_PauseFirst(sender, _credentialId) ==
    FirstRevert(<<
        whenNotPaused,
        credentialExists(_credentialId),
        IF ~(Credential(_credentialId).issuer = sender \/ sender = owner)
        THEN "Only issuer or owner can revoke" ELSE NoRevert,
        IF Credential(_credentialId).isRevoked THEN "Already revoked"
        ELSE NoRevert >>)

revokeCredentialRevert(sender, _credentialId) ==
    FirstRevert(<<
        credentialExists(_credentialId),
        whenNotPaused,
        IF ~(Credential(_credentialId).issuer = sender \/ sender = owner)
        THEN "Only issuer or owner can revoke" ELSE NoRevert,
        IF Credential(_credentialId).isRevoked THEN "Already revoked" ELSE NoRevert >>)

\* slip: the event of a refused second revocation stays in the log
revokeCredential_EmitsWhenRefused(sender, _credentialId) ==
    LET err == revokeCredentialRevert(sender, _credentialId) IN
    IF err = "Already revoked"
    THEN /\ Len(events) < MaxEvents
         /\ Emit([kind |-> "CredentialRevoked", credentialId |-> _credentialId,
                  issuer |-> sender])
         /\ UNCHANGED <<owner, paused, credentials, issuers, authorizedIssuers,
                        studentCredentials, issuerCredentials, now>>
    ELSE IF err # NoRevert THEN Reverted
    ELSE /\ Len(events) < MaxEvents
         /\ credentials' = [credentials EXCEPT ![_credentialId].isRevoked = TRUE]
         /\ Emit([kind |-> "CredentialRevoked", credentialId |-> _credentialId,
                  issuer |-> sender])
         /\ UNCHANGED <<owner, paused, issuers, authorizedIssuers,
                        studentCredentials, issuerCredentials, now>>

\* slip: the revocation is stored without its CredentialRevoked event
revokeCredential_NoEvent(sender, _credentialId) ==
    LET err == revokeCredentialRevert(sender, _credentialId) IN
    IF err # NoRevert THEN Reverted
    ELSE /\ credentials' = [credentials EXCEPT ![_credentialId].isRevoked = TRUE]
         /\ UNCHANGED <<owner, paused, issuers, authorizedIssuers,
                        studentCredentials, issuerCredentials, events, now>>

\* slip: the revocation also overwrites the expiry with the revocation time
revokeCredential_StampsExpiry(sender, _credentialId) ==
    LET err == revokeCredentialRevert(sender, _credentialId) IN
    IF err # NoRevert THEN Reverted
    ELSE /\ Len(events) < MaxEvents
         /\ credentials' = [credentials EXCEPT
                ![_credentialId].isRevoked = TRUE,
                ![_credentialId].expiryDate = now]
         /\ Emit([kind |-> "CredentialRevoked", credentialId |-> _credentialId,
                  issuer |-> sender])
         /\ UNCHANGED <<owner, paused, issuers, authorizedIssuers,
                        studentCredentials, issuerCredentials, now>>

\* slip: the revocation also takes the credential off its issuer's count
revokeCredential_DecrementsCount(sender, _credentialId) ==
    LET err == revokeCredentialRevert(sender, _credentialId) IN
    IF err # NoRevert THEN Reverted
    ELSE /\ Len(events) < MaxEvents
         /\ credentials' = [credentials EXCEPT ![_credentialId].isRevoked = TRUE]
         /\ issuers' = [issuers EXCEPT
                ![Credential(_credentialId).issuer].credentialsIssued = @ - 1]
         /\ Emit([kind |-> "CredentialRevoked", credentialId |-> _credentialId,
                  issuer |-> sender])
         /\ UNCHANGED <<owner, paused, authorizedIssuers,
                        studentCredentials, issuerCredentials, now>>

revokeCredential(sender, _credentialId) ==
    LET err == revokeCredentialRevert(sender, _credentialId) IN
    IF err # NoRevert THEN Reverted
    ELSE /\ Len(events) < MaxEvents
         /\ credentials' = [credentials EXCEPT ![_credentialId].isRevoked = TRUE]
         /\ Emit([kind |-> "CredentialRevoked", credentialId |-> _credentialId,
                  issuer |-> sender])
         /\ UNCHANGED <<owner, paused, issuers, authorizedIssuers,
                        studentCredentials, issuerCredentials, now>>

\* -------------------------------------------------------- verifyCredential
\* slip: a credential counts as expired at its expiry timestamp already
verifyCredentialResult_ExpiresAtDeadline(_credentialId) ==
    LET cred == Credential(_credentialId)
        expired == cred.expiryDate > NoExpiry /\ now >= cred.expiryDate
        isValid == ~cred.isRevoked /\ ~expired /\ authorizedIssuers[cred.issuer]
    IN
    IF credentialExists(_credentialId) # NoRevert
    THEN [err |-> credentialExists(_credentialId)]
    ELSE [err |-> NoRevert, isValid |-> isValid, issuer |-> cred.issuer,
          student |-> cred.student, credentialType |-> cred.credentialType,
          issueDate |-> cred.issueDate, expiryDate |-> cred.expiryDate,
          isRevoked |-> cred.isRevoked]

\* slip: isValid does not look at the revoked flag
verifyCredentialResult_IgnoresRevocation(_credentialId) ==
    LET cred == Credential(_credentialId)
        expired == cred.expiryDate > NoExpiry /\ now > cred.expiryDate
        isValid == ~expired /\ authorizedIssuers[cred.issuer]
    IN
    IF credentialExists(_credentialId) # NoRevert
    THEN [err |-> credentialExists(_credentialId)]
    ELSE [err |-> NoRevert, isValid |-> isValid, issuer |-> cred.issuer,
          student |-> cred.student, credentialType |-> cred.credentialType,
          issueDate |-> cred.issueDate, expiryDate |-> cred.expiryDate,
          isRevoked |-> cred.isRevoked]

\* slip: verifyCredential carries whenNotPaused like the mutating functions
verifyCredentialResult_PauseGated(_credentialId) ==
    LET cred == Credential(_credentialId)
        expired == cred.expiryDate > NoExpiry /\ now > cred.expiryDate
        isValid == ~cred.isRevoked /\ ~expired /\ authorizedIssuers[cred.issuer]
    IN
    IF FirstRevert(<<credentialExists(_credentialId), whenNotPaused>>) # NoRevert
    THEN [err |-> FirstRevert(<<credentialExists(_credentialId), whenNotPaused>>)]
    ELSE [err |-> NoRevert, isValid |-> isValid, issuer |-> cred.issuer,
          student |-> cred.student, credentialType |-> cred.credentialType,
          issueDate |-> cred.issueDate, expiryDate |-> cred.expiryDate,
          isRevoked |-> cred.isRevoked]

\* slip: no credentialExists modifier, an unknown ID gets the default result
verifyCredentialResult_DefaultForUnknown(_credentialId) ==
    LET cred == Credential(_credentialId)
        expired == cred.expiryDate > NoExpiry /\ now > cred.expiryDate
        isValid == ~cred.isRevoked /\ ~expired /\ authorizedIssuers[cred.issuer]
    IN
    [err |-> NoRevert,
     isValid |-> isValid,
     issuer |-> cred.issuer,
     student |-> cred.student,
     credentialType |-> cred.credentialType,
     issueDate |-> cred.issueDate,
     expiryDate |-> cred.expiryDate,
     isRevoked |-> cred.isRevoked]

\* slip: the expiryDate > 0 guard is missing, expiry 0 counts as a deadline
verifyCredentialResult_ZeroExpiryExpires(_credentialId) ==
    LET cred == Credential(_credentialId)
        expired == now > cred.expiryDate
        isValid == ~cred.isRevoked /\ ~expired /\ authorizedIssuers[cred.issuer]
    IN
    IF credentialExists(_credentialId) # NoRevert
    THEN [err |-> credentialExists(_credentialId)]
    ELSE [err |-> NoRevert,
          isValid |-> isValid,
          issuer |-> cred.issuer,
          student |-> cred.student,
          credentialType |-> cred.credentialType,
          issueDate |-> cred.issueDate,
          expiryDate |-> cred.expiryDate,
          isRevoked |-> cred.isRevoked]

\* the tuple verifyCredential returns, or its revert reason
verifyCredentialResult(_credentialId) ==
    LET cred == Credential(_credentialId)
        expired == cred.expiryDate > NoExpiry /\ now > cred.expiryDate
        isValid == ~cred.isRevoked /\ ~expired /\ authorizedIssuers[cred.issuer]
    IN
    IF credentialExists(_credentialId) # NoRevert
    THEN [err |-> credentialExists(_credentialId)]
    ELSE [err |-> NoRevert,
          isValid |-> isValid,
          issuer |-> cred.issuer,
          student |-> cred.student,
          credentialType |-> cred.credentialType,
          issueDate |-> cred.issueDate,
          expiryDate |-> cred.expiryDate,
          isRevoked |-> cred.isRevoked]

\* slip: not a view, a successful verification emits CredentialVerified
verifyCredential_EmitsVerified(_credentialId) ==
    IF verifyCredentialResult(_credentialId).err # NoRevert THEN Reverted
    ELSE /\ Len(events) < MaxEvents
         /\ Emit([kind |-> "CredentialVerified", credentialId |-> _credentialId,
                  verifier |-> owner])
         /\ UNCHANGED <<owner, paused, credentials, issuers, authorizedIssuers,
                        studentCredentials, issuerCredentials, now>>

\* a view: no storage write, no event
verifyCredential(_credentialId) == UNCHANGED vars

\* ------------------------------------------------------------------ lists
getStudentCredentialsResult(_student) == studentCredentials[_student]

getStudentCredentials(_student) == UNCHANGED vars

getIssuerCredentialsResult(_issuer) == issuerCredentials[_issuer]

getIssuerCredentials(_issuer) == UNCHANGED vars

\* ---------------------------------------------------------- pause/unpause
\* slip: onlyOwner left off pause
pauseRevert_NoOwnerGate(sender) == FirstRevert(<<whenNotPaused>>)

pauseRevert(sender) == FirstRevert(<<onlyOwner(sender), whenNotPaused>>)

pause(sender) ==
    LET err == pauseRevert(sender) IN
    IF err # NoRevert THEN Reverted
    ELSE /\ Len(events) < MaxEvents
         /\ paused' = TRUE
         /\ Emit([kind |-> "Paused", account |-> sender])
         /\ UNCHANGED <<owner, credentials, issuers, authorizedIssuers,
                        studentCredentials, issuerCredentials, now>>

unpauseRevert(sender) == FirstRevert(<<onlyOwner(sender), whenPaused>>)

\* slip: unpause calls _pause(), the flag stays set
unpause_KeepsPaused(sender) ==
    LET err == unpauseRevert(sender) IN
    IF err # NoRevert THEN Reverted
    ELSE /\ Len(events) < MaxEvents
         /\ paused' = TRUE
         /\ Emit([kind |-> "Unpaused", account |-> sender])
         /\ UNCHANGED <<owner, credentials, issuers, authorizedIssuers,
                        studentCredentials, issuerCredentials, now>>

unpause(sender) ==
    LET err == unpauseRevert(sender) IN
    IF err # NoRevert THEN Reverted
    ELSE /\ Len(events) < MaxEvents
         /\ paused' = FALSE
         /\ Emit([kind |-> "Unpaused", account |-> sender])
         /\ UNCHANGED <<owner, credentials, issuers, authorizedIssuers,
                        studentCredentials, issuerCredentials, now>>

\* ------------------------------------------------------------ environment
\* a later block: block.timestamp only grows
Tick ==
    /\ now < MaxTime
    /\ now' = now + 1
    /\ UNCHANGED registry

Next ==
    \/ \E s \in Senders, a \in IssuerArgs, n \in Strings, c \in Strings :
          addIssuer(s, a, n, c)
    \/ \E s \in Senders, a \in IssuerArgs : removeIssuer(s, a)
    \/ \E s \in Senders, st \in StudentArgs, h \in Strings, t \in Strings,
          x \in ExpiryDates : issueCredential(s, st, h, t, x)
    \/ \E s \in Senders, id \in CredentialIds : revokeCredential(s, id)
    \/ \E id \in CredentialIds : verifyCredential(id)
    \/ \E a \in Address : getStudentCredentials(a)
    \/ \E a \in Address : getIssuerCredentials(a)
    \/ \E s \in Senders : pause(s)
    \/ \E s \in Senders : unpause(s)
    \/ Tick

Spec == Init /\ [][Next]_vars

\* ---------------------------------------------------- ID derivation checks
\* the registry driven by one issuer with the longer strings: the owner
\* registers it, it issues to a subject, time passes
InitIds == Init

NextIds ==
    \/ \E n \in PackedStrings : addIssuer(Deployer, University, n, <<>>)
    \/ \E st \in StudentArgs, h \in PackedStrings, t \in PackedStrings :
          issueCredential(University, st, h, t, NoExpiry)
    \/ Tick

SpecIds == InitIds /\ [][NextIds]_vars

\* ------------------------------------------------------------ error kinds
\* the named failure kind each revert reason of the contract stands for
ErrorKind(reason) ==
    CASE reason \in {"OwnableUnauthorizedAccount", "Not an authorized issuer",
                     "Issuer is not active", "Only issuer or owner can revoke"}
             -> "Unauthorized"
      [] reason \in {"Credential does not exist", "Issuer does not exist"}
             -> "NotFound"
      [] reason \in {"Issuer already exists", "Credential already exists"}
             -> "AlreadyExists"
      [] reason \in {"Invalid issuer address", "Name cannot be empty",
                     "Invalid student address", "IPFS hash cannot be empty",
                     "Credential type cannot be empty"}
             -> "InvalidInput"
      [] reason = "EnforcedPause" -> "SystemPaused"
      [] reason = "Already revoked" -> "AlreadyRevoked"
      [] OTHER -> reason

\* ------------------------------------------------------------ log queries
\* the committed call that wrote the newest log entry
LastEvent == events[Len(events)]

EventsOfKind(kind) == {i \in 1..Len(events) : events[i].kind = kind}

\* a CredentialRevoked entry for id is in the log: revokeCredential(id) succeeded
RevokeCommitted(id) ==
    \E i \in EventsOfKind("CredentialRevoked") : events[i].credentialId = id

\* this step is the commit of removeIssuer(i)
RemoveIssuerStep(i) ==
    events' = Append(events, [kind |-> "IssuerRemoved", issuer |-> i])

ExistingIds == {id \in DOMAIN credentials : credentials[id].exists}

\* ================================================================== claims

\* C1: for every existing credential c, verifyCredential(c) returns without
\* reverting and its isValid equals (not c.isRevoked) and (not expired) and
\* (c.issuer is authorized now), where expired means c.expiryDate # 0 and
\* now > c.expiryDate; the stored record has no validity field to read.
C1_DerivedValidity ==
    \A id \in ExistingIds :
        LET c == credentials[id]
            r == verifyCredentialResult(id)
        IN /\ r.err = NoRevert
           /\ r.isValid = ( /\ c.isRevoked = FALSE
                            /\ ~(c.expiryDate # 0 /\ now > c.expiryDate)
                            /\ authorizedIssuers[c.issuer] = TRUE )
           /\ r.isRevoked = c.isRevoked
           /\ "isValid" \notin DOMAIN c

\* C1 witness: the three ways of being invalid and the valid case of the
\* expiry boundary (now = expiryDate) are all checked somewhere; this state
\* has a credential verified valid exactly at its expiry timestamp.
C1_Witness ==
    \E id \in ExistingIds :
        /\ credentials[id].expiryDate = now
        /\ verifyCredentialResult(id).isValid

\* C2: across every step, a credential that exists still exists, a revoked
\* credential is still revoked, and a credential that comes into existence
\* starts unrevoked (nonexistent -> active -> revoked, never backwards).
C2_LifecycleStep ==
    \A id \in DOMAIN credentials \cup DOMAIN credentials' :
        LET before == CredentialIn(credentials, id)
            after == CredentialIn(credentials', id)
        IN /\ before.exists => after.exists
           /\ before.isRevoked => after.isRevoked
           /\ (~before.exists /\ after.exists) => ~after.isRevoked
           /\ after.isRevoked => after.exists

C2_OneWayLifecycle == [][C2_LifecycleStep]_vars

\* C2 witness: a revoked credential with a committed call after its revocation.
C2_Witness ==
    \E id \in ExistingIds :
        /\ credentials[id].isRevoked
        /\ LastEvent.kind # "CredentialRevoked"

\* C3: once revokeCredential(c) has committed, verifyCredential(c) returns
\* isRevoked = true and isValid = false in every later state.
C3_RevokedStaysInvalid ==
    \A id \in CredentialIds :
        RevokeCommitted(id) =>
            LET r == verifyCredentialResult(id)
            IN r.err = NoRevert /\ r.isRevoked = TRUE /\ r.isValid = FALSE

\* C3 witness: c was revoked and another call committed after that (an issuer
\* added or removed, a pause, another issuance).
C3_Witness ==
    \E id \in ExistingIds :
        /\ RevokeCommitted(id)
        /\ LastEvent.kind \in {"IssuerAdded", "IssuerRemoved", "Paused",
                               "CredentialIssued"}

\* C4: the commit of removeIssuer(i) changes no credential record, and right
\* after it verifyCredential returns isValid = false for every credential of
\* i, in particular for those that were unrevoked and unexpired.
C4_RemoveIssuerStep ==
    \A i \in Address :
        RemoveIssuerStep(i) =>
            /\ credentials' = credentials
            /\ \A id \in ExistingIds :
                   credentials[id].issuer = i =>
                       /\ verifyCredentialResult(id)'.err = NoRevert
                       /\ verifyCredentialResult(id)'.isValid = FALSE

C4_RemovalInvalidates == [][C4_RemoveIssuerStep]_vars

\* C4 witness: removeIssuer(i) has just committed and i has a credential that
\* is neither revoked nor expired.
C4_Witness ==
    /\ LastEvent.kind = "IssuerRemoved"
    /\ \E id \in ExistingIds :
           /\ credentials[id].issuer = LastEvent.issuer
           /\ ~credentials[id].isRevoked
           /\ ~(credentials[id].expiryDate # 0 /\ now > credentials[id].expiryDate)
           /\ ~verifyCredentialResult(id).isValid

\* C5 as stated: while paused, every issueCredential call and every
\* revokeCredential call fails with SystemPaused.
C5_PausedAlwaysSystemPaused ==
    paused =>
        /\ \A s \in Senders, st \in StudentArgs, h \in Strings, t \in Strings,
              x \in ExpiryDates :
               ErrorKind(issueCredentialRevert(s, st, h, t, x)) = "SystemPaused"
        /\ \A s \in Senders, id \in CredentialIds :
               ErrorKind(revokeCredentialRevert(s, id)) = "SystemPaused"

\* C5 amended: while paused every issueCredential and revokeCredential call
\* fails; the failure is SystemPaused when the issueCredential caller is an
\* active authorized issuer, resp. when the credential named in
\* revokeCredential exists, and otherwise it is the failure of the check made
\* before the pause check: Unauthorized (issueCredential by a non-issuer) or
\* NotFound (revokeCredential of an unknown ID).
C5_PausedBlocksIssueAndRevoke ==
    paused =>
        /\ \A s \in Senders, st \in StudentArgs, h \in Strings, t \in Strings,
              x \in ExpiryDates :
               ErrorKind(issueCredentialRevert(s, st, h, t, x)) =
                   IF authorizedIssuers[s] /\ issuers[s].isActive
                   THEN "SystemPaused" ELSE "Unauthorized"
        /\ \A s \in Senders, id \in CredentialIds :
               ErrorKind(revokeCredentialRevert(s, id)) =
                   IF Credential(id).exists THEN "SystemPaused" ELSE "NotFound"

\* C5 witness: paused, with an active authorized issuer and an unrevoked
\* credential, so that both calls would commit but for the pause.
C5_Witness ==
    /\ paused
    /\ \E id \in ExistingIds :
           /\ ~credentials[id].isRevoked
           /\ authorizedIssuers[credentials[id].issuer]
           /\ issuers[credentials[id].issuer].isActive

\* C6: pausing and unpausing leave every verifyCredential result as it was, and
\* verifyCredential of an existing credential returns (does not revert) on
\* both sides of the switch, i.e. also while paused.
C6_PauseSwitchStep ==
    paused' # paused =>
        \A id \in CredentialIds :
            /\ verifyCredentialResult(id)' = verifyCredentialResult(id)
            /\ Credential(id).exists => verifyCredentialResult(id)'.err = NoRevert

C6_VerifyIgnoresPause == [][C6_PauseSwitchStep]_vars

\* C6 witness: paused, and some credential verifies as valid.
C6_Witness ==
    /\ paused
    /\ \E id \in ExistingIds : verifyCredentialResult(id).isValid

\* C7: issueCredential by a caller that is not an active authorized issuer
\* fails with Unauthorized whatever the other arguments and the pause flag,
\* and every record that comes into existence names as issuer an address that
\* was authorized and active when the step was taken.
C7_UnauthorizedCannotIssue ==
    \A s \in Senders :
        ~(authorizedIssuers[s] /\ issuers[s].isActive) =>
            \A st \in StudentArgs, h \in Strings, t \in Strings, x \in ExpiryDates :
                ErrorKind(issueCredentialRevert(s, st, h, t, x)) = "Unauthorized"

C7_CreationStep ==
    \A id \in DOMAIN credentials' :
        (~CredentialIn(credentials, id).exists /\ credentials'[id].exists) =>
            /\ authorizedIssuers[credentials'[id].issuer]
            /\ issuers[credentials'[id].issuer].isActive

C7_OnlyAuthorizedIssuersCreate ==
    []C7_UnauthorizedCannotIssue /\ [][C7_CreationStep]_vars

\* C7 witness: a credential exists whose issuer has been removed since, and the
\* owner is not a registered issuer: both kinds of caller are refused.
C7_Witness ==
    /\ ~authorizedIssuers[owner]
    /\ \E id \in ExistingIds : ~authorizedIssuers[credentials[id].issuer]

\* C8: addIssuer, removeIssuer, pause and unpause called by anyone but the
\* owner fail with Unauthorized, and no step is such a call committing: the
\* registry (tables, indices, pause flag, event log) is unchanged by it.
C8_NonOwnerRefused ==
    \A s \in Senders \ {owner} :
        /\ \A a \in IssuerArgs, n \in Strings, c \in Strings :
               ErrorKind(addIssuerRevert(s, a, n, c)) = "Unauthorized"
        /\ \A a \in IssuerArgs : ErrorKind(removeIssuerRevert(s, a)) = "Unauthorized"
        /\ ErrorKind(pauseRevert(s)) = "Unauthorized"
        /\ ErrorKind(unpauseRevert(s)) = "Unauthorized"

C8_NonOwnerStep ==
    \A s \in Senders \ {owner} :
        ( \/ \E a \in IssuerArgs, n \in Strings, c \in Strings : addIssuer(s, a, n, c)
          \/ \E a \in IssuerArgs : removeIssuer(s, a)
          \/ pause(s)
          \/ unpause(s) ) => UNCHANGED registry

C8_OwnerOnlyAdministration == []C8_NonOwnerRefused /\ [][C8_NonOwnerStep]_vars

\* C8 witness: an issuer is registered and the system is paused, so a
\* removeIssuer or unpause by a non-owner would have something to change.
C8_Witness ==
    /\ paused
    /\ \E a \in Address : authorizedIssuers[a] /\ a # owner

\* C9 as stated: revokeCredential of an existing credential by a caller who is
\* neither its recorded issuer nor the owner fails with Unauthorized.
C9_OutsiderAlwaysUnauthorized ==
    \A id \in ExistingIds, s \in Senders :
        (s # credentials[id].issuer /\ s # owner) =>
            ErrorKind(revokeCredentialRevert(s, id)) = "Unauthorized"

\* C9 amended: revokeCredential of an existing credential by a caller who is
\* neither its recorded issuer nor the owner fails with Unauthorized while the
\* system is not paused and with SystemPaused while it is paused (the pause
\* check comes first); in both cases the revoked flag is left as it was.
C9_OutsiderRefused ==
    \A id \in ExistingIds, s \in Senders :
        (s # credentials[id].issuer /\ s # owner) =>
            ErrorKind(revokeCredentialRevert(s, id)) =
                IF paused THEN "SystemPaused" ELSE "Unauthorized"

C9_OutsiderStep ==
    \A id \in ExistingIds, s \in Senders :
        (s # credentials[id].issuer /\ s # owner /\ revokeCredential(s, id)) =>
            credentials'[id].isRevoked = credentials[id].isRevoked

C9_OutsiderCannotRevoke == []C9_OutsiderRefused /\ [][C9_OutsiderStep]_vars

\* C9 witness: not paused, an unrevoked credential, and the student is neither
\* its issuer nor the owner.
C9_Witness ==
    /\ ~paused
    /\ \E id \in ExistingIds :
           /\ ~credentials[id].isRevoked
           /\ Student \notin {credentials[id].issuer, owner}

\* C10: revokeCredential(c) by the owner or by c's recorded issuer (authorized
\* or not) does not revert when c exists, is unrevoked and the system is not
\* paused; and c's revoked flag goes from false to true in a step exactly when
\* that step appends one CredentialRevoked(c, caller) with the caller being
\* the owner or c's recorded issuer.
C10_EligibleRevokeSucceeds ==
    \A id \in ExistingIds, s \in Senders :
        ( /\ ~credentials[id].isRevoked
          /\ ~paused
          /\ (s = owner \/ s = credentials[id].issuer) ) =>
            revokeCredentialRevert(s, id) = NoRevert

C10_RevokeStep ==
    \A id \in ExistingIds :
        (~credentials[id].isRevoked /\ credentials'[id].isRevoked)
        <=> \E s \in {owner, credentials[id].issuer} :
                events' = Append(events, [kind |-> "CredentialRevoked",
                                          credentialId |-> id, issuer |-> s])

C10_RevokeByIssuerOrOwner ==
    []C10_EligibleRevokeSucceeds /\ [][C10_RevokeStep]_vars

\* C10 witness: the newest log entry is a revocation made by the credential's
\* recorded issuer after that issuer was removed.
C10_Witness ==
    /\ LastEvent.kind = "CredentialRevoked"
    /\ LastEvent.issuer = Credential(LastEvent.credentialId).issuer
    /\ LastEvent.issuer # owner
    /\ ~authorizedIssuers[LastEvent.issuer]
    /\ Credential(LastEvent.credentialId).isRevoked

\* --------------------------------------------------------- more queries
\* how often x occurs in the sequence seq
Occurrences(seq, x) == Cardinality({i \in 1..Len(seq) : seq[i] = x})

\* the log positions of the events of a kind that name the credential id
CredentialEvents(kind, id) ==
    {i \in EventsOfKind(kind) : events[i].credentialId = id}

\* the log positions of the events of a kind that name the issuer a
IssuerEvents(kind, a) == {i \in EventsOfKind(kind) : events[i].issuer = a}

\* the caller is an issuer that passes onlyAuthorizedIssuer
ActiveIssuer(s) == authorizedIssuers[s] /\ issuers[s].isActive

\* C11: revokeCredential of an already revoked credential by its recorded
\* issuer or the owner, system not paused, fails with AlreadyRevoked; the log
\* never holds a second CredentialRevoked for the same credential.
C11_SecondRevokeRefused ==
    \A id \in ExistingIds :
        /\ \A s \in {owner, credentials[id].issuer} \cap Senders :
               (credentials[id].isRevoked /\ ~paused) =>
                   ErrorKind(revokeCredentialRevert(s, id)) = "AlreadyRevoked"
        /\ Cardinality(CredentialEvents("CredentialRevoked", id)) <= 1

\* C11 witness: a revoked credential, no pause, and room in the log for the
\* event a second revocation would emit.
C11_Witness ==
    /\ ~paused
    /\ Len(events) < MaxEvents
    /\ \E id \in ExistingIds : credentials[id].isRevoked

\* C12 as stated: issueCredential whose derived ID already exists fails with
\* AlreadyExists.
C12_DuplicateAlwaysAlreadyExists ==
    \A s \in Senders, st \in StudentArgs, h \in Strings, t \in Strings,
       x \in ExpiryDates :
        Credential(credentialIdOf(s, st, h, t)).exists =>
            ErrorKind(issueCredentialRevert(s, st, h, t, x)) = "AlreadyExists"

\* C12 amended: issueCredential whose derived ID already exists never commits:
\* it fails with AlreadyExists when the caller is still an active authorized
\* issuer and the system is not paused, with Unauthorized when the caller is
\* no longer one, and with SystemPaused when it is one and the system is
\* paused.  The existing record is not overwritten: every existing ID has
\* exactly one CredentialIssued event, occurs once in its issuer's index and
\* once in its subject's index.
C12_DuplicateRefused ==
    /\ \A s \in Senders, st \in StudentArgs, h \in Strings, t \in Strings,
          x \in ExpiryDates :
           Credential(credentialIdOf(s, st, h, t)).exists =>
               ErrorKind(issueCredentialRevert(s, st, h, t, x)) =
                   IF ~ActiveIssuer(s) THEN "Unauthorized"
                   ELSE IF paused THEN "SystemPaused"
                   ELSE "AlreadyExists"
    /\ \A id \in ExistingIds :
           /\ Cardinality(CredentialEvents("CredentialIssued", id)) = 1
           /\ Occurrences(issuerCredentials[credentials[id].issuer], id) = 1
           /\ Occurrences(studentCredentials[credentials[id].student], id) = 1

\* C12 witness: in the block of an issuance, with the issuer still active and
\* no pause, the same tuple derives the existing ID again.
C12_Witness ==
    /\ ~paused
    /\ Len(events) < MaxEvents
    /\ \E id \in ExistingIds :
           LET c == credentials[id]
           IN /\ ActiveIssuer(c.issuer)
              /\ credentialIdOf(c.issuer, c.student, c.ipfsHash,
                                c.credentialType) = id

\* C13: the tuple of a credential issued at an earlier timestamp derives
\* another ID now, and issuing it again succeeds (issuer active, system not
\* paused, the tuple not yet issued at the current timestamp); any two
\* CredentialIssued events carry different IDs, each with its own record.
C13_ReissueLaterIsDistinct ==
    /\ \A id \in ExistingIds : \A x \in ExpiryDates :
           LET c == credentials[id]
               again == credentialIdOf(c.issuer, c.student, c.ipfsHash,
                                       c.credentialType)
           IN c.issueDate # now =>
                  /\ again # id
                  /\ (ActiveIssuer(c.issuer) /\ ~paused
                          /\ ~Credential(again).exists) =>
                         issueCredentialRevert(c.issuer, c.student, c.ipfsHash,
                                               c.credentialType, x) = NoRevert
    /\ \A i, j \in EventsOfKind("CredentialIssued") :
           i # j =>
               /\ events[i].credentialId # events[j].credentialId
               /\ Credential(events[i].credentialId).exists
               /\ Credential(events[j].credentialId).exists

\* C13 witness: two records with the same issuer, subject, content reference
\* and type, issued at different timestamps.
C13_Witness ==
    \E id1, id2 \in ExistingIds :
        LET a == credentials[id1]
            b == credentials[id2]
        IN /\ id1 # id2
           /\ a.issueDate # b.issueDate
           /\ a.issuer = b.issuer /\ a.student = b.student
           /\ a.ipfsHash = b.ipfsHash /\ a.credentialType = b.credentialType

\* C14: a committed issueCredential applies all its effects in one step: the
\* ID was unused, its new record holds the caller as issuer, the given
\* subject, content reference, type and expiry, issueDate = now and
\* isRevoked = FALSE; the ID becomes the last element of the subject's and of
\* the issuer's index; the issuer's issued-count grows by 1; exactly one
\* CredentialIssued event for the ID is appended.  (Steps that leave the
\* registry as it was are those of failed calls and views.)
C14_IssueStep ==
    registry' # registry =>
        \A s \in Senders, st \in StudentArgs, h \in Strings, t \in Strings,
           x \in ExpiryDates :
            (issueCredentialRevert(s, st, h, t, x) = NoRevert
                /\ issueCredential(s, st, h, t, x)) =>
                LET id == credentialIdOf(s, st, h, t)
                IN /\ ~Credential(id).exists
                   /\ CredentialIn(credentials', id) =
                          [credentialHash |-> keccak256(h), ipfsHash |-> h,
                           issuer |-> s, student |-> st, credentialType |-> t,
                           issueDate |-> now, expiryDate |-> x,
                           isRevoked |-> FALSE, exists |-> TRUE]
                   /\ studentCredentials'[st] =
                          Append(studentCredentials[st], id)
                   /\ issuerCredentials'[s] = Append(issuerCredentials[s], id)
                   /\ issuers'[s].credentialsIssued =
                          issuers[s].credentialsIssued + 1
                   /\ events' = Append(events,
                          [kind |-> "CredentialIssued", credentialId |-> id,
                           issuer |-> s, student |-> st, credentialType |-> t,
                           ipfsHash |-> h])
                   /\ CredentialEvents("CredentialIssued", id) = {}

C14_IssueAppliesAllEffects == [][C14_IssueStep]_vars

\* C14 witness: a credential was just issued: the newest event is its
\* CredentialIssued and it ends both of its indices.
C14_Witness ==
    /\ LastEvent.kind = "CredentialIssued"
    /\ LET id == LastEvent.credentialId
       IN /\ Credential(id).exists
          /\ studentCredentials[LastEvent.student]
                 [Len(studentCredentials[LastEvent.student])] = id
          /\ issuerCredentials[LastEvent.issuer]
                 [Len(issuerCredentials[LastEvent.issuer])] = id
          /\ issuers[LastEvent.issuer].credentialsIssued = 1

\* C15: a call of addIssuer, removeIssuer, pause, unpause, issueCredential or
\* revokeCredential that fails with any error leaves the whole registry
\* state, event log included, unchanged: a step that changes the registry is
\* not the step of a failing call.
C15_FailedCallStep ==
    registry' # registry =>
        /\ \A s \in Senders, a \in IssuerArgs, n \in Strings, c \in Strings :
               addIssuerRevert(s, a, n, c) # NoRevert => ~addIssuer(s, a, n, c)
        /\ \A s \in Senders, a \in IssuerArgs :
               removeIssuerRevert(s, a) # NoRevert => ~removeIssuer(s, a)
        /\ \A s \in Senders :
               /\ pauseRevert(s) # NoRevert => ~pause(s)
               /\ unpauseRevert(s) # NoRevert => ~unpause(s)
        /\ \A s \in Senders, st \in StudentArgs, h \in Strings, t \in Strings,
              x \in ExpiryDates :
               issueCredentialRevert(s, st, h, t, x) # NoRevert =>
                   ~issueCredential(s, st, h, t, x)
        /\ \A s \in Senders, id \in CredentialIds :
               revokeCredentialRevert(s, id) # NoRevert =>
                   ~revokeCredential(s, id)

C15_FailureChangesNothing == [][C15_FailedCallStep]_vars

\* C15 witness: a state with a revoked credential of an authorized issuer in
\* which a call of each of the six operations fails, each for its own reason,
\* and the log has room for an event.
C15_Witness ==
    /\ Len(events) < MaxEvents
    /\ \E id \in ExistingIds :
           LET c == credentials[id]
           IN /\ revokeCredentialRevert(c.issuer, id) = "Already revoked"
              /\ issueCredentialRevert(c.issuer, c.student, c.ipfsHash,
                     c.credentialType, c.expiryDate)
                     = "Credential already exists"
              /\ addIssuerRevert(owner, c.issuer, <<97>>, <<>>)
                     = "Issuer already exists"
              /\ removeIssuerRevert(owner, Student) = "Issuer does not exist"
              /\ pauseRevert(c.issuer) = "OwnableUnauthorizedAccount"
              /\ unpauseRevert(owner) = "ExpectedPause"

\* C16: the log mirrors the committed mutations: every existing record has
\* exactly one CredentialIssued event (carrying its issuer, subject, type and
\* content reference) and every CredentialIssued event names an existing
\* record; every revoked credential has exactly one CredentialRevoked event
\* and every CredentialRevoked event names a revoked credential; for every
\* identity the IssuerAdded events outnumber the IssuerRemoved events by one
\* while it is authorized and equal them while it is not; the log holds no
\* CredentialVerified event.
C16_EventsMirrorState ==
    /\ \A id \in ExistingIds :
           /\ Cardinality(CredentialEvents("CredentialIssued", id)) = 1
           /\ Cardinality(CredentialEvents("CredentialRevoked", id)) =
                  IF credentials[id].isRevoked THEN 1 ELSE 0
    /\ \A i \in EventsOfKind("CredentialIssued") :
           LET c == Credential(events[i].credentialId)
           IN /\ c.exists
              /\ c.issuer = events[i].issuer
              /\ c.student = events[i].student
              /\ c.credentialType = events[i].credentialType
              /\ c.ipfsHash = events[i].ipfsHash
    /\ \A i \in EventsOfKind("CredentialRevoked") :
           /\ Credential(events[i].credentialId).exists
           /\ Credential(events[i].credentialId).isRevoked
    /\ \A a \in Address :
           Cardinality(IssuerEvents("IssuerAdded", a)) =
               Cardinality(IssuerEvents("IssuerRemoved", a))
                   + (IF authorizedIssuers[a] THEN 1 ELSE 0)
    /\ EventsOfKind("CredentialVerified") = {}

\* C16 witness: an issuer was added and removed again, and a credential it
\* issued is revoked: all four event kinds are logged.
C16_Witness ==
    /\ \E a \in Address :
           /\ Cardinality(IssuerEvents("IssuerAdded", a)) = 1
           /\ Cardinality(IssuerEvents("IssuerRemoved", a)) = 1
    /\ \E id \in ExistingIds : credentials[id].isRevoked

\* C17 as stated: once an addIssuer for an identity has succeeded, addIssuer
\* for it by the owner (with a valid name) fails with AlreadyExists.
C17_RegisteredIssuerRefused ==
    \A a \in IssuerArgs \ {ZeroAddress}, n \in Strings \ {<<>>}, c \in Strings :
        IssuerEvents("IssuerAdded", a) # {} =>
            ErrorKind(addIssuerRevert(owner, a, n, c)) = "AlreadyExists"

\* C18: removeIssuer by the owner on a currently registered (authorized)
\* issuer does not revert, and its commit sets the issuer's authorization
\* flag and active flag to FALSE and appends one IssuerRemoved event; the
\* issuer's name, country, registration timestamp and issued-count, every
\* other issuer, both indices and all credential records stay as they were.
C18_RemoveIssuerStep ==
    \A s \in Senders, a \in IssuerArgs :
        (removeIssuerRevert(s, a) = NoRevert /\ removeIssuer(s, a)) =>
            /\ s = owner
            /\ authorizedIssuers' = [authorizedIssuers EXCEPT ![a] = FALSE]
            /\ ~issuers'[a].isActive
            /\ issuers'[a].name = issuers[a].name
            /\ issuers'[a].country = issuers[a].country
            /\ issuers'[a].registrationDate = issuers[a].registrationDate
            /\ issuers'[a].credentialsIssued = issuers[a].credentialsIssued
            /\ \A b \in Address \ {a} : issuers'[b] = issuers[b]
            /\ issuerCredentials' = issuerCredentials
            /\ studentCredentials' = studentCredentials
            /\ credentials' = credentials
            /\ events' = Append(events, [kind |-> "IssuerRemoved", issuer |-> a])

C18_RemoveIssuerIsSoftDelete ==
    /\ [](\A a \in IssuerArgs :
             authorizedIssuers[a] => removeIssuerRevert(owner, a) = NoRevert)
    /\ [][C18_RemoveIssuerStep]_vars

\* C18 witness: an issuer that has issued a credential was just removed: both
\* flags are FALSE, its name, registration timestamp, issued-count and index
\* are still there.
C18_Witness ==
    /\ LastEvent.kind = "IssuerRemoved"
    /\ LET a == LastEvent.issuer
       IN /\ ~authorizedIssuers[a] /\ ~issuers[a].isActive
          /\ issuers[a].name # <<>>
          /\ issuers[a].registrationDate > 0
          /\ issuers[a].credentialsIssued = 1
          /\ Len(issuerCredentials[a]) = 1
          /\ Credential(issuerCredentials[a][1]).exists

\* C19: removeIssuer by the owner for an identity for which no addIssuer ever
\* succeeded fails with NotFound (and so changes no state).
C19_RemoveUnregisteredRefused ==
    \A a \in IssuerArgs :
        IssuerEvents("IssuerAdded", a) = {} =>
            /\ ErrorKind(removeIssuerRevert(owner, a)) = "NotFound"
            /\ ~authorizedIssuers[a]
            /\ issuers[a] = DefaultIssuer

\* C19 witness: one identity is registered, another never was, and the log
\* has room for the event a removal would emit.
C19_Witness ==
    /\ Len(events) < MaxEvents
    /\ \E a, b \in IssuerArgs \ {ZeroAddress} :
           /\ IssuerEvents("IssuerAdded", a) = {}
           /\ authorizedIssuers[b]

\* every ID issueCredential can derive from the inputs, and an underivable one
DerivableIds ==
    {keccak256(encodePacked(s, st, h, t, ts)) :
        s \in Senders, st \in StudentArgs, h \in Strings, t \in Strings,
        ts \in 1..MaxTime} \cup {UnknownId}

\* C20: in every reachable state verifyCredential of an ID that was never
\* issued fails with NotFound; it does not return a result.
C20_UnknownIdNotFound ==
    \A id \in DerivableIds :
        CredentialEvents("CredentialIssued", id) = {} =>
            /\ verifyCredentialResult(id) = [err |-> "Credential does not exist"]
            /\ ErrorKind(verifyCredentialResult(id).err) = "NotFound"

\* C20 witness: a credential exists while the same issuer, subject, content
\* reference and type at another timestamp derive an ID never issued.
C20_Witness ==
    \E id \in ExistingIds : \E ts \in 1..MaxTime :
        LET c == credentials[id]
            other == keccak256(encodePacked(c.issuer, c.student, c.ipfsHash,
                                            c.credentialType, ts))
        IN /\ other # id
           /\ CredentialEvents("CredentialIssued", other) = {}
           /\ authorizedIssuers[c.issuer]

\* C21: a credential issued with expiry 0 never expires: at every time
\* verifyCredential returns isValid = TRUE for it as long as it is not
\* revoked and its issuer is authorized.
C21_NoExpiryNeverExpires ==
    \A id \in ExistingIds :
        (credentials[id].expiryDate = NoExpiry
            /\ ~credentials[id].isRevoked
            /\ authorizedIssuers[credentials[id].issuer]) =>
               /\ verifyCredentialResult(id).err = NoRevert
               /\ verifyCredentialResult(id).isValid
               /\ verifyCredentialResult(id).expiryDate = NoExpiry

\* C21 witness: at the last modelled time, a credential with expiry 0 issued
\* at an earlier time is unrevoked and its issuer authorized.
C21_Witness ==
    /\ now = MaxTime
    /\ \E id \in ExistingIds :
           /\ credentials[id].expiryDate = NoExpiry
           /\ credentials[id].issueDate < now
           /\ ~credentials[id].isRevoked
           /\ authorizedIssuers[credentials[id].issuer]

\* C22: issueCredential with a non-zero expiry already in the past does not
\* revert (active issuer, no pause, valid inputs, unused ID), and for every
\* credential whose expiry lies before its issuance verifyCredential returns
\* isValid = FALSE together with the record's revoked flag, FALSE unless the
\* credential was revoked since.
C22_PastExpiryIssuedButInvalid ==
    /\ \A s \in Senders, st \in StudentArgs \ {ZeroAddress},
          h \in Strings \ {<<>>}, t \in Strings \ {<<>>},
          x \in ExpiryDates \ {NoExpiry} :
           (x < now /\ ActiveIssuer(s) /\ ~paused
               /\ ~Credential(credentialIdOf(s, st, h, t)).exists) =>
                  issueCredentialRevert(s, st, h, t, x) = NoRevert
    /\ \A id \in ExistingIds :
           (credentials[id].expiryDate # NoExpiry
               /\ credentials[id].expiryDate < credentials[id].issueDate) =>
                  /\ verifyCredentialResult(id).err = NoRevert
                  /\ ~verifyCredentialResult(id).isValid
                  /\ verifyCredentialResult(id).isRevoked =
                         credentials[id].isRevoked
                  /\ CredentialEvents("CredentialRevoked", id) = {} =>
                         ~verifyCredentialResult(id).isRevoked

\* C22 witness: a credential issued with its expiry already past, not
\* revoked, its issuer authorized.
C22_Witness ==
    \E id \in ExistingIds :
        /\ credentials[id].expiryDate # NoExpiry
        /\ credentials[id].expiryDate < credentials[id].issueDate
        /\ ~credentials[id].isRevoked
        /\ authorizedIssuers[credentials[id].issuer]

\* the log position of the CredentialIssued event of the credential id
IssuedAt(id) == CHOOSE i \in CredentialEvents("CredentialIssued", id) : TRUE

\* the IDs of the sequence list are in issuance order
InIssuanceOrder(list) ==
    \A i, j \in 1..Len(list) :
        i < j =>
            /\ Credential(list[i]).exists /\ Credential(list[j]).exists
            /\ IssuedAt(list[i]) < IssuedAt(list[j])
            /\ credentials[list[i]].issueDate <= credentials[list[j]].issueDate

\* C23: getStudentCredentials and getIssuerCredentials return the IDs in
\* issuance order (the credential of the earlier committed issueCredential
\* first, so issueDate never decreases along the list), and every existing
\* credential, revoked or expired ones included, is in the list of its
\* subject and in the list of its issuer.
C23_ListsInIssuanceOrder ==
    /\ \A a \in Address :
           /\ InIssuanceOrder(getStudentCredentialsResult(a))
           /\ InIssuanceOrder(getIssuerCredentialsResult(a))
    /\ \A id \in ExistingIds :
           /\ \E i \in 1..Len(getStudentCredentialsResult(credentials[id].student)) :
                  getStudentCredentialsResult(credentials[id].student)[i] = id
           /\ \E i \in 1..Len(getIssuerCredentialsResult(credentials[id].issuer)) :
                  getIssuerCredentialsResult(credentials[id].issuer)[i] = id

\* C23 witness: a subject's list holds two credentials issued at different
\* times, the first of them revoked.
C23_Witness ==
    \E a \in Address :
        LET list == getStudentCredentialsResult(a)
        IN /\ Len(list) = 2
           /\ credentials[list[1]].isRevoked
           /\ credentials[list[1]].issueDate < credentials[list[2]].issueDate

\* the sequence p is a prefix of the sequence q
IsPrefix(p, q) == Len(p) <= Len(q) /\ SubSeq(q, 1, Len(p)) = p

\* C24: both indices are append-only: in every step the old value of each
\* subject index and of each issuer index is a prefix of its new value.
C24_IndexStep ==
    \A a \in Address :
        /\ IsPrefix(studentCredentials[a], studentCredentials'[a])
        /\ IsPrefix(issuerCredentials[a], issuerCredentials'[a])

C24_IndicesAppendOnly == [][C24_IndexStep]_vars

\* C24 witness: a second credential was just appended to an issuer's index
\* that already held one, and that issuer has since been through no removal.
C24_Witness ==
    /\ LastEvent.kind = "CredentialIssued"
    /\ Len(issuerCredentials[LastEvent.issuer]) = 2
    /\ issuerCredentials[LastEvent.issuer][2] = LastEvent.credentialId
    /\ IssuerEvents("IssuerRemoved", LastEvent.issuer) = {}

\* C25: a credential record is immutable but for its revoked flag: in every
\* step each existing record keeps its content reference, content hash,
\* issuer, subject, type, issue timestamp, expiry timestamp and existence.
C25_RecordStep ==
    \A id \in ExistingIds :
        CredentialIn(credentials', id) =
            [credentials[id] EXCEPT
                !.isRevoked = CredentialIn(credentials', id).isRevoked]

C25_RecordImmutable == [][C25_RecordStep]_vars

\* C25 witness: a credential with an expiry was revoked at a later time than
\* it was issued; its record still carries what its CredentialIssued event
\* logged.
C25_Witness ==
    /\ LastEvent.kind = "CredentialRevoked"
    /\ LET id == LastEvent.credentialId
           c == Credential(id)
           ev == events[IssuedAt(id)]
       IN /\ c.exists /\ c.isRevoked
          /\ c.issueDate < now
          /\ c.expiryDate # NoExpiry
          /\ c.issuer = ev.issuer /\ c.student = ev.student
          /\ c.ipfsHash = ev.ipfsHash /\ c.credentialType = ev.credentialType
          /\ c.credentialHash = keccak256(ev.ipfsHash)

\* C26: issueCredential by an active authorized issuer while not paused fails
\* with InvalidInput when the subject is the zero identity, the content
\* reference is empty or the credential type is empty; no record with such a
\* field exists.
C26_InvalidIssueRefused ==
    /\ \A s \in Senders, st \in StudentArgs, h \in Strings, t \in Strings,
          x \in ExpiryDates :
           (ActiveIssuer(s) /\ ~paused
               /\ (st = ZeroAddress \/ h = <<>> \/ t = <<>>)) =>
                  ErrorKind(issueCredentialRevert(s, st, h, t, x)) = "InvalidInput"
    /\ \A id \in ExistingIds :
           /\ credentials[id].student # ZeroAddress
           /\ credentials[id].ipfsHash # <<>>
           /\ credentials[id].credentialType # <<>>

\* C26 witness: an active issuer, no pause, room in the log: a call with an
\* empty type alone is refused for its type, one with a zero subject for its
\* subject, one with an empty content reference for the reference.
C26_Witness ==
    /\ ~paused
    /\ Len(events) < MaxEvents
    /\ \E s \in Senders :
           /\ ActiveIssuer(s)
           /\ issueCredentialRevert(s, Student, <<97>>, <<>>, NoExpiry)
                  = "Credential type cannot be empty"
           /\ issueCredentialRevert(s, ZeroAddress, <<97>>, <<97>>, NoExpiry)
                  = "Invalid student address"
           /\ issueCredentialRevert(s, Student, <<>>, <<97>>, NoExpiry)
                  = "IPFS hash cannot be empty"

\* C27: addIssuer by the owner fails with InvalidInput when the identity is
\* the zero identity or the name is empty, and then registers nothing (the
\* zero identity is never authorized, no authorized issuer has an empty name,
\* no IssuerAdded event carries either); with a non-zero unregistered
\* identity and a non-empty name, an empty country is accepted.
C27_InvalidAddRefused ==
    /\ \A a \in IssuerArgs, n \in Strings, c \in Strings :
           (a = ZeroAddress \/ n = <<>>) =>
               ErrorKind(addIssuerRevert(owner, a, n, c)) = "InvalidInput"
    /\ \A a \in IssuerArgs \ {ZeroAddress}, n \in Strings \ {<<>>} :
           ~authorizedIssuers[a] => addIssuerRevert(owner, a, n, <<>>) = NoRevert
    /\ ~authorizedIssuers[ZeroAddress]
    /\ \A a \in Address : authorizedIssuers[a] => issuers[a].name # <<>>
    /\ \A i \in EventsOfKind("IssuerAdded") :
           events[i].issuer # ZeroAddress /\ events[i].name # <<>>

\* C27 witness: an issuer registered with an empty country is authorized,
\* another identity is not yet registered and the log has room.
C27_Witness ==
    /\ Len(events) < MaxEvents
    /\ \E a, b \in IssuerArgs \ {ZeroAddress} :
           /\ authorizedIssuers[a]
           /\ issuers[a].country = <<>>
           /\ issuers[a].name # <<>>
           /\ ~authorizedIssuers[b]
           /\ addIssuerRevert(owner, b, <<>>, <<>>) = "Name cannot be empty"

\* C28: a committed addIssuer(id, name, country) is the owner's; it makes id
\* authorized and active with the given name and country, registration
\* timestamp now and issued-count 0, and appends IssuerAdded(id, name,
\* country); in the state after it id can issue: while the system is not
\* paused, issueCredential by id with valid inputs and an unused ID does not
\* revert.
C28_AddIssuerStep ==
    registry' # registry =>
        \A s \in Senders, a \in IssuerArgs, n \in Strings, c \in Strings :
            (addIssuerRevert(s, a, n, c) = NoRevert /\ addIssuer(s, a, n, c)) =>
                /\ s = owner
                /\ authorizedIssuers'[a]
                /\ issuers'[a] = [name |-> n, country |-> c, isActive |-> TRUE,
                                  registrationDate |-> now,
                                  credentialsIssued |-> 0]
                /\ events' = Append(events,
                       [kind |-> "IssuerAdded", issuer |-> a, name |-> n,
                        country |-> c])
                /\ onlyAuthorizedIssuer(a)' = NoRevert
                /\ ~paused' =>
                       \A st \in StudentArgs \ {ZeroAddress},
                          h \in Strings \ {<<>>}, t \in Strings \ {<<>>},
                          x \in ExpiryDates :
                           \/ Credential(credentialIdOf(a, st, h, t))'.exists
                           \/ issueCredentialRevert(a, st, h, t, x)' = NoRevert

C28_AddIssuerMakesIssuer == [][C28_AddIssuerStep]_vars

\* C28 witness: addIssuer has just committed: the identity of the newest
\* event is authorized and active with the logged name and country,
\* registered now with issued-count 0, and a call of issueCredential by it
\* would not revert.
C28_Witness ==
    /\ LastEvent.kind = "IssuerAdded"
    /\ LET a == LastEvent.issuer
       IN /\ authorizedIssuers[a] /\ issuers[a].isActive
          /\ issuers[a].name = LastEvent.name
          /\ issuers[a].country = LastEvent.country
          /\ issuers[a].registrationDate = now
          /\ issuers[a].credentialsIssued = 0
          /\ issueCredentialRevert(a, Student, <<97>>, <<97>>, NoExpiry) = NoRevert

\* C29: verifyCredential, getStudentCredentials and getIssuerCredentials are
\* read-only: a step that changes the registry or its log is not the step of
\* one of them, whatever the argument and whether the call returns or
\* reverts; no CredentialVerified event is ever in the log.
C29_ViewStep ==
    registry' # registry =>
        /\ \A id \in CredentialIds : ~verifyCredential(id)
        /\ \A a \in Address :
               ~getStudentCredentials(a) /\ ~getIssuerCredentials(a)

C29_ViewsReadOnly ==
    /\ [](\A i \in 1..Len(events) : events[i].kind # "CredentialVerified")
    /\ [][C29_ViewStep]_vars

\* C29 witness: a state in which verifyCredential returns for one ID and
\* reverts for another, both lists are non-empty, and the log has room.
C29_Witness ==
    /\ Len(events) < MaxEvents
    /\ verifyCredentialResult(UnknownId).err = "Credential does not exist"
    /\ \E id \in ExistingIds :
           /\ verifyCredentialResult(id).err = NoRevert
           /\ getStudentCredentialsResult(credentials[id].student) # <<>>
           /\ getIssuerCredentialsResult(credentials[id].issuer) # <<>>

\* the state right after construction
C30_InitialState ==
    /\ owner = Deployer
    /\ ~paused
    /\ \A a \in Address :
           /\ ~authorizedIssuers[a]
           /\ studentCredentials[a] = <<>>
           /\ issuerCredentials[a] = <<>>
    /\ ExistingIds = {}

\* whether issuance and revocation are possible depends, pause flag aside,
\* on issuers and credentials only
C30_PossibleWhenNotPaused ==
    ~paused =>
        /\ \A s \in Senders, st \in StudentArgs, h \in Strings, t \in Strings,
              x \in ExpiryDates :
               issueCredentialRevert(s, st, h, t, x) = NoRevert <=>
                   /\ ActiveIssuer(s)
                   /\ st # ZeroAddress /\ h # <<>> /\ t # <<>>
                   /\ ~Credential(credentialIdOf(s, st, h, t)).exists
        /\ \A s \in Senders, id \in CredentialIds :
               revokeCredentialRevert(s, id) = NoRevert <=>
                   /\ Credential(id).exists
                   /\ s = Credential(id).issuer \/ s = owner
                   /\ ~Credential(id).isRevoked

\* a committed pause sets the flag, a committed unpause clears it; both are
\* the owner's and leave issuers, credentials and indices as they were
C30_PauseStep ==
    registry' # registry =>
        \A s \in Senders :
            /\ (pauseRevert(s) = NoRevert /\ pause(s)) =>
                   /\ s = owner /\ ~paused /\ paused'
                   /\ events' = Append(events, [kind |-> "Paused", account |-> s])
                   /\ UNCHANGED <<owner, issuers, authorizedIssuers, credentials,
                                  studentCredentials, issuerCredentials>>
            /\ (unpauseRevert(s) = NoRevert /\ unpause(s)) =>
                   /\ s = owner /\ paused /\ ~paused'
                   /\ events' = Append(events,
                          [kind |-> "Unpaused", account |-> s])
                   /\ UNCHANGED <<owner, issuers, authorizedIssuers, credentials,
                                  studentCredentials, issuerCredentials>>

\* C30: initially the owner is the deployer, the system is not paused, no
\* issuer is authorized and no credential exists; pause by the owner sets
\* the pause flag, unpause clears it, and neither changes issuers,
\* credentials or indices; whenever the system is not paused, so also after
\* a pause/unpause pair, issuance and revocation are possible exactly as
\* issuers and credentials allow.
C30_InitialStateAndPauseSwitch ==
    /\ C30_InitialState
    /\ []C30_PossibleWhenNotPaused
    /\ [][C30_PauseStep]_vars

\* C30 witness: after a pause and an unpause the system is not paused, and
\* an issuance and a revocation are possible.
C30_Witness ==
    /\ EventsOfKind("Paused") # {}
    /\ LastEvent.kind = "Unpaused"
    /\ ~paused
    /\ \E id \in ExistingIds :
           /\ revokeCredentialRevert(credentials[id].issuer, id) = NoRevert
           /\ issueCredentialRevert(credentials[id].issuer, Student, <<97>>,
                                    <<97>>, 1) = NoRevert

\* C31 as stated: for every identity the issued-count equals the length of
\* its issuer index, the number of credentials whose recorded issuer it is.
C31_CountEqualsIndexLength ==
    \A i \in Address :
        /\ issuers[i].credentialsIssued = Len(issuerCredentials[i])
        /\ Len(issuerCredentials[i]) =
               Cardinality({id \in ExistingIds : credentials[id].issuer = i})

\* C33 as stated: once verifyCredential(c) returns isValid = FALSE, no later
\* step makes it return isValid = TRUE.
C33_InvalidStep ==
    \A id \in ExistingIds :
        ~verifyCredentialResult(id).isValid =>
            ~verifyCredentialResult(id)'.isValid

C33_InvalidityMonotone == [][C33_InvalidStep]_vars

\* C34: for every identity a, authorizedIssuers[a] equals issuers[a].isActive,
\* so the issuers verifyCredential accepts (authorizedIssuers) are exactly
\* those issueCredential accepts (onlyAuthorizedIssuer).
C34_FlagsAgree ==
    \A a \in Address :
        /\ authorizedIssuers[a] = issuers[a].isActive
        /\ authorizedIssuers[a] <=> onlyAuthorizedIssuer(a) = NoRevert

\* C34 witness: one issuer is authorized and active, another was registered
\* and removed, and a credential of the removed one exists.
C34_Witness ==
    \E a, b \in Address :
        /\ authorizedIssuers[a] /\ issuers[a].isActive
        /\ IssuerEvents("IssuerRemoved", b) # {}
        /\ ~authorizedIssuers[b] /\ ~issuers[b].isActive
        /\ issuerCredentials[b] # <<>>

\* C35: an ID occurs in the subject index of s exactly when a credential with
\* that ID exists and its subject is s, and in the issuer index of i exactly
\* when it exists and its issuer is i; it then occurs there exactly once; no
\* index holds an ID without a record.
C35_IndicesAgreeWithTable ==
    /\ \A a \in Address, id \in ExistingIds :
           /\ Occurrences(studentCredentials[a], id) =
                  IF credentials[id].student = a THEN 1 ELSE 0
           /\ Occurrences(issuerCredentials[a], id) =
                  IF credentials[id].issuer = a THEN 1 ELSE 0
    /\ \A a \in Address :
           /\ \A k \in 1..Len(studentCredentials[a]) :
                  Credential(studentCredentials[a][k]).exists
           /\ \A k \in 1..Len(issuerCredentials[a]) :
                  Credential(issuerCredentials[a][k]).exists

\* C35 witness: two issuers have each issued a credential to the same
\* subject: the subject index holds both, each issuer index its own.
C35_Witness ==
    \E a, b \in Address :
        /\ a # b
        /\ Len(issuerCredentials[a]) = 1 /\ Len(issuerCredentials[b]) = 1
        /\ Len(studentCredentials[Student]) = 2
        /\ issuerCredentials[a][1] # issuerCredentials[b][1]

\* C36: a committed revokeCredential changes only the revoked flag of the
\* credential it names and the event log: the other fields of that record,
\* every other record, both indices, the issuer table with its issued-counts,
\* the authorization flags, the pause flag and the owner stay as they were.
C36_RevokeStep ==
    registry' # registry =>
        \A s \in Senders, id \in CredentialIds :
            (revokeCredentialRevert(s, id) = NoRevert /\ revokeCredential(s, id)) =>
                /\ ~credentials[id].isRevoked
                /\ credentials' = [credentials EXCEPT ![id].isRevoked = TRUE]
                /\ \A other \in ExistingIds \ {id} :
                       credentials'[other] = credentials[other]
                /\ events' = Append(events,
                       [kind |-> "CredentialRevoked", credentialId |-> id,
                        issuer |-> s])
                /\ UNCHANGED <<studentCredentials, issuerCredentials, issuers,
                               authorizedIssuers, paused, owner>>

C36_RevokeFrame == [][C36_RevokeStep]_vars

\* C36 witness: one of two credentials was just revoked; the other is not
\* revoked and the issuer's count still reads 2.
C36_Witness ==
    /\ LastEvent.kind = "CredentialRevoked"
    /\ \E other \in ExistingIds :
           /\ other # LastEvent.credentialId
           /\ ~credentials[other].isRevoked
           /\ credentials[LastEvent.credentialId].isRevoked
           /\ credentials[other].issuer = credentials[LastEvent.credentialId].issuer
           /\ issuers[credentials[other].issuer].credentialsIssued = 2

\* C37: removeIssuer returns only for the owner and a currently authorized
\* issuer; for an identity that was registered and is removed it fails with
\* NotFound ("Issuer does not exist") although the issuer record is still
\* stored, and the log never holds two IssuerRemoved events for an identity
\* without an IssuerAdded event for it between them.
C37_SecondRemoveRefused ==
    /\ \A s \in Senders, a \in IssuerArgs :
           removeIssuerRevert(s, a) = NoRevert => (s = owner /\ authorizedIssuers[a])
    /\ \A a \in IssuerArgs :
           (IssuerEvents("IssuerRemoved", a) # {} /\ ~authorizedIssuers[a]) =>
               /\ removeIssuerRevert(owner, a) = "Issuer does not exist"
               /\ ErrorKind(removeIssuerRevert(owner, a)) = "NotFound"
               /\ issuers[a].name # <<>>
               /\ issuers[a].registrationDate # 0
    /\ \A a \in Address : \A i, j \in IssuerEvents("IssuerRemoved", a) :
           i < j => \E k \in IssuerEvents("IssuerAdded", a) : i < k /\ k < j

\* C37 witness: removeIssuer(i) has just committed, the record of i is still
\* stored and the log has room for a second IssuerRemoved.
C37_Witness ==
    /\ LastEvent.kind = "IssuerRemoved"
    /\ Len(events) < MaxEvents
    /\ ~authorizedIssuers[LastEvent.issuer]
    /\ issuers[LastEvent.issuer].registrationDate # 0

\* the revert reason issueCredential reports, by the order of its checks
C38_ExpectedRevert(s, st, h, t) ==
    IF ~authorizedIssuers[s] THEN "Not an authorized issuer"
    ELSE IF ~issuers[s].isActive THEN "Issuer is not active"
    ELSE IF paused THEN "EnforcedPause"
    ELSE IF st = ZeroAddress THEN "Invalid student address"
    ELSE IF h = <<>> THEN "IPFS hash cannot be empty"
    ELSE IF t = <<>> THEN "Credential type cannot be empty"
    ELSE IF Credential(credentialIdOf(s, st, h, t)).exists
         THEN "Credential already exists"
    ELSE NoRevert

\* C38: issueCredential reports the first violated precondition in the order
\* Unauthorized (caller not an active authorized issuer), SystemPaused,
\* InvalidInput (zero subject, then empty content reference, then empty
\* type), AlreadyExists: an unauthorized caller gets Unauthorized also while
\* the system is paused or the inputs are invalid.
C38_IssueCheckOrder ==
    \A s \in Senders, st \in StudentArgs, h \in Strings, t \in Strings,
       x \in ExpiryDates :
        /\ issueCredentialRevert(s, st, h, t, x) = C38_ExpectedRevert(s, st, h, t)
        /\ ~ActiveIssuer(s) =>
               ErrorKind(issueCredentialRevert(s, st, h, t, x)) = "Unauthorized"
        /\ (ActiveIssuer(s) /\ paused) =>
               ErrorKind(issueCredentialRevert(s, st, h, t, x)) = "SystemPaused"

\* C38 witness: the system is paused; a caller that is no active issuer calls
\* with invalid inputs, and an active issuer repeats an issuance of this
\* block.
C38_Witness ==
    /\ paused
    /\ \E s \in Senders :
           /\ ~ActiveIssuer(s)
           /\ issueCredentialRevert(s, ZeroAddress, <<>>, <<>>, NoExpiry)
                  = "Not an authorized issuer"
    /\ \E id \in ExistingIds :
           LET c == credentials[id]
           IN /\ c.issueDate = now
              /\ issueCredentialRevert(c.issuer, c.student, c.ipfsHash,
                     c.credentialType, c.expiryDate) = "EnforcedPause"

\* the revert reason revokeCredential reports, by the order of its checks
C39_ExpectedRevert(s, id) ==
    IF ~Credential(id).exists THEN "Credential does not exist"
    ELSE IF paused THEN "EnforcedPause"
    ELSE IF ~(s = Credential(id).issuer \/ s = owner)
         THEN "Only issuer or owner can revoke"
    ELSE IF Credential(id).isRevoked THEN "Already revoked"
    ELSE NoRevert

\* C39: revokeCredential reports the first violated precondition in the
\* order NotFound, SystemPaused, Unauthorized (caller neither recorded issuer
\* nor owner), AlreadyRevoked: an unknown ID yields NotFound also while
\* paused, and an outsider revoking an already revoked credential, system
\* not paused, gets Unauthorized.
C39_RevokeCheckOrder ==
    \A s \in Senders, id \in CredentialIds :
        /\ revokeCredentialRevert(s, id) = C39_ExpectedRevert(s, id)
        /\ ~Credential(id).exists =>
               ErrorKind(revokeCredentialRevert(s, id)) = "NotFound"
        /\ (Credential(id).exists /\ ~paused /\ Credential(id).isRevoked
               /\ s # Credential(id).issuer /\ s # owner) =>
               ErrorKind(revokeCredentialRevert(s, id)) = "Unauthorized"

\* C39 witness: no pause, a revoked credential and an outsider to it, whose
\* revoke is refused for the caller and not for the revocation.
C39_Witness ==
    /\ ~paused
    /\ \E id \in ExistingIds : \E s \in Senders :
           /\ credentials[id].isRevoked
           /\ s # credentials[id].issuer /\ s # owner
           /\ revokeCredentialRevert(s, id) = "Only issuer or owner can revoke"
           /\ revokeCredentialRevert(s, UnknownId) = "Credential does not exist"

\* C32 as stated: ID derivation is injective on its input tuple: a call that
\* reaches the derivation (non-zero subject, non-empty content reference and
\* type) derives the ID of an existing credential only with that
\* credential's own issuer, subject, content reference, type and issuance
\* timestamp.
C32_DistinctTuplesDistinctIds ==
    \A id \in ExistingIds :
        \A s \in Senders, st \in StudentArgs \ {ZeroAddress},
           h \in PackedStrings \ {<<>>}, t \in PackedStrings \ {<<>>} :
            credentialIdOf(s, st, h, t) = id =>
                /\ s = credentials[id].issuer
                /\ st = credentials[id].student
                /\ h = credentials[id].ipfsHash
                /\ t = credentials[id].credentialType
                /\ now = credentials[id].issueDate

====
